---- MODULE Spec2Model ----
(***************************************************************************)
(* Card footer author fragments of the flow-ui card:                       *)
(*   CardFooterAuthorAvatar  (Card.Footer.Author.Avatar, src/unnamed/      *)
(*                            part_000)                                    *)
(*   CardFooterAuthorName    (Card.Footer.Author.Name.jsx)                 *)
(* One render pass of each component over the props (variant, omitAuthor,  *)
(* author) and the theme-ui theme.  The reduce of the avatar component is  *)
(* unfolded into one step per responsive variant identifier.               *)
(***************************************************************************)
EXTENDS Integers, Sequences, FiniteSets

\* ---------------------------------------------------------------- bounds
\* longest variant array handed to a card
MaxLen == 3

\* ------------------------------------------------------------ JS values
\* variant names a card is given (Posts.jsx passes ['horizontal', 'vertical'])
VariantNames == {"horizontal", "vertical"}

\* the theme section the avatar looks its variants up in
AuthorPhotoSection == "authorPhoto"

\* values of the CSS display property a declaration may carry
DisplayValues == {"none", "block"}

\* the literal {} handed to get as its default
EmptyDeclaration == [k \in {} |-> "none"]

\* style declaration objects: with or without a display property
Declarations == UNION {[D -> DisplayValues] : D \in SUBSET {"display"}}

\* one section of the theme: variant name -> declaration, keys may be missing
StyleTables == UNION {[D -> Declarations] : D \in SUBSET VariantNames}

\* context.theme: the section itself may be missing (empty style table)
Themes == UNION {[S -> StyleTables] : S \in SUBSET {AuthorPhotoSection}}

\* author === null / undefined
Null == [null |-> "null"]

\* author records: name, slug and thumbnail are each present or absent
AuthorRecords ==
  UNION {[D -> {"set"}] : D \in SUBSET {"name", "slug", "thumbnail"}}

Authors == AuthorRecords \cup {Null}

\* obj.k on an object: a missing property reads as undefined
Prop(obj, k) == IF k \in DOMAIN obj THEN obj[k] ELSE "undefined"

\* JS truthiness of a property value
Truthy(v) == v \notin {"undefined", ""}

\* the variant prop: a single name or an array of names
RECURSIVE SeqsUpTo(_, _)
SeqsUpTo(S, n) ==
  IF n = 0 THEN {<<>>}
  ELSE LET shorter == SeqsUpTo(S, n - 1)
       IN  shorter \cup {Append(s, x) : s \in {t \in shorter : Len(t) = n - 1}, x \in S}

VariantProps ==
  {[isArray |-> FALSE, value |-> <<n>>] : n \in VariantNames}
    \cup {[isArray |-> TRUE, value |-> s] : s \in SeqsUpTo(VariantNames, MaxLen)}

\* ------------------------------------------------------------ functions
\* buildResponsiveVariant: an array maps element-wise, a scalar becomes a
\* one-element sequence; an identifier "section.name" is the path <<section, name>>
rv(variant, section) ==
  IF variant.isArray
  THEN [i \in 1..Len(variant.value) |-> <<section, variant.value[i]>>]
  ELSE << <<section, variant.value[1]>> >>

\* theme-ui get: walk the dotted path, fall back to def when a key is missing
RECURSIVE walk(_, _, _)
walk(obj, path, p) ==
  IF p > Len(path) THEN [found |-> TRUE, value |-> obj]
  ELSE IF path[p] \in DOMAIN obj THEN walk(obj[path[p]], path, p + 1)
  ELSE [found |-> FALSE, value |-> EmptyDeclaration]

get(obj, path, def) ==
  LET r == walk(obj, path, 1) IN IF r.found THEN r.value ELSE def

\* mutants of the reduce callback
reducerLastWins(mobileVisibility, variant, theme) ==
  IF Prop(get(theme, variant, EmptyDeclaration), "display") = "none"
  THEN FALSE ELSE TRUE

reducerInverted(mobileVisibility, variant, theme) ==
  IF mobileVisibility = FALSE
     /\ Prop(get(theme, variant, EmptyDeclaration), "display") # "none"
  THEN FALSE ELSE TRUE

\* the reduce callback of CardFooterAuthorAvatar
reducer(mobileVisibility, variant, theme) ==
  IF mobileVisibility = FALSE
     /\ Prop(get(theme, variant, EmptyDeclaration), "display") = "none"
  THEN FALSE ELSE TRUE

\* mutant of the seed
initialValueTrue == TRUE

\* the initial value handed to reduce
initialValue == FALSE

\* responsiveVariant.reduce(reducer, false) as a whole
RECURSIVE reduce(_, _, _)
reduce(ids, seed, theme) ==
  IF ids = <<>> THEN seed
  ELSE reduce(Tail(ids), reducer(seed, Head(ids), theme), theme)

\* mutants of the avatar return expression
avatarNoThumbnailCheck(visibility, author) ==
  IF visibility
  THEN IF author # Null THEN "AvatarSimple" ELSE "null"
  ELSE "null"

avatarNoAuthorGuard(visibility, author) ==
  IF visibility
  THEN IF author = Null THEN "error"
       ELSE IF Truthy(Prop(author, "thumbnail")) THEN "AvatarSimple" ELSE "null"
  ELSE "null"

\* visibility ? (author && author.thumbnail ? <AvatarSimple/> : null) : null
avatarFragment(visibility, author) ==
  IF visibility
  THEN IF author # Null /\ Truthy(Prop(author, "thumbnail"))
       THEN "AvatarSimple" ELSE "null"
  ELSE "null"

\* mutant of the name expression
nameIgnoresOmit(omit, author) ==
  IF author # Null /\ Truthy(Prop(author, "slug")) THEN "Text" ELSE "null"

\* !omitAuthor && author && author.slug ? <Text/> : null
nameFragment(omit, author) ==
  IF ~omit /\ author # Null /\ Truthy(Prop(author, "slug"))
  THEN "Text" ELSE "null"

\* no earlier evaluation of the fold is on record
NoEvaluation == [known |-> FALSE]

\* ---------------------------------------------------------------- state
VARIABLES
  variant,            \* prop: variant
  omitAuthor,         \* prop: omitAuthor
  author,             \* prop: author
  theme,              \* context.theme
  pc,                 \* position in CardFooterAuthorAvatar
  responsiveVariant,  \* const responsiveVariant
  idx,                \* identifiers the reduce has consumed
  mobileVisibility,   \* accumulator of the reduce
  visibility,         \* const visibility
  avatarOut,          \* what CardFooterAuthorAvatar returned
  namePc,             \* position in CardFooterAuthorName
  nameOut,            \* what CardFooterAuthorName returned
  earlier             \* an evaluation of the fold in an earlier render

vars == <<variant, omitAuthor, author, theme, pc, responsiveVariant, idx,
          mobileVisibility, visibility, avatarOut, namePc, nameOut, earlier>>

props == <<variant, omitAuthor, author, theme>>

Init ==
  /\ variant \in VariantProps
  /\ omitAuthor \in BOOLEAN
  /\ author \in Authors
  /\ theme \in Themes
  /\ pc = "start"
  /\ responsiveVariant = <<>>
  /\ idx = 0
  /\ mobileVisibility = FALSE
  /\ visibility = FALSE
  /\ avatarOut = "pending"
  /\ namePc = "start"
  /\ nameOut = "pending"
  /\ earlier = NoEvaluation

\* if (omitAuthor) return null
AvatarOmit ==
  /\ pc = "start"
  /\ omitAuthor
  /\ pc' = "done"
  /\ avatarOut' = "null"
  /\ UNCHANGED <<props, earlier, responsiveVariant, idx, mobileVisibility, visibility,
                 namePc, nameOut>>

\* mutant: the accumulator lives outside the component and is not re-seeded
AvatarBuildVariantKeepsAccumulator ==
  /\ pc = "start"
  /\ ~omitAuthor
  /\ responsiveVariant' = rv(variant, AuthorPhotoSection)
  /\ idx' = 0
  /\ UNCHANGED mobileVisibility
  /\ pc' = "reduce"
  /\ UNCHANGED <<props, earlier, visibility, avatarOut, namePc, nameOut>>

\* const responsiveVariant = rv(variant, 'authorPhoto'); reduce starts at its seed
AvatarBuildVariant ==
  /\ pc = "start"
  /\ ~omitAuthor
  /\ responsiveVariant' = rv(variant, AuthorPhotoSection)
  /\ idx' = 0
  /\ mobileVisibility' = initialValue
  /\ pc' = "reduce"
  /\ UNCHANGED <<props, earlier, visibility, avatarOut, namePc, nameOut>>

\* one call of the reduce callback
ReduceStep ==
  /\ pc = "reduce"
  /\ idx < Len(responsiveVariant)
  /\ mobileVisibility' = reducer(mobileVisibility, responsiveVariant[idx + 1], theme)
  /\ idx' = idx + 1
  /\ UNCHANGED <<props, earlier, pc, responsiveVariant, visibility, avatarOut, namePc, nameOut>>

\* reduce returns the accumulator: const visibility = ...
ReduceEnd ==
  /\ pc = "reduce"
  /\ idx = Len(responsiveVariant)
  /\ visibility' = mobileVisibility
  /\ pc' = "return"
  /\ UNCHANGED <<props, earlier, responsiveVariant, idx, mobileVisibility, avatarOut,
                 namePc, nameOut>>

\* return visibility ? (...) : null
AvatarReturn ==
  /\ pc = "return"
  /\ avatarOut' = avatarFragment(visibility, author)
  /\ pc' = "done"
  /\ UNCHANGED <<props, earlier, responsiveVariant, idx, mobileVisibility, visibility,
                 namePc, nameOut>>

\* CardFooterAuthorName, a single expression
NameRender ==
  /\ namePc = "start"
  /\ nameOut' = nameFragment(omitAuthor, author)
  /\ namePc' = "done"
  /\ UNCHANGED <<props, earlier, pc, responsiveVariant, idx, mobileVisibility, visibility,
                 avatarOut>>

Next ==
  \/ AvatarOmit
  \/ AvatarBuildVariant
  \/ ReduceStep
  \/ ReduceEnd
  \/ AvatarReturn
  \/ NameRender

Spec == Init /\ [][Next]_vars

\* the evaluation of the fold that the finished render made
ThisEvaluation ==
  [known |-> TRUE, ids |-> responsiveVariant, theme |-> theme, result |-> visibility]

\* the card is rendered again with a variant prop of the caller's choice:
\* both components start over, the locals of the finished call are gone;
\* the finished evaluation of the fold may be kept on record
Rerender ==
  /\ pc = "done"
  /\ namePc = "done"
  /\ \E v \in VariantProps : variant' = v
  /\ \E keep \in BOOLEAN :
       earlier' = IF keep \/ omitAuthor THEN earlier ELSE ThisEvaluation
  /\ pc' = "start"
  /\ namePc' = "start"
  /\ responsiveVariant' = <<>>
  /\ idx' = 0
  /\ visibility' = FALSE
  /\ avatarOut' = "pending"
  /\ nameOut' = "pending"
  /\ UNCHANGED <<omitAuthor, author, theme, mobileVisibility>>

NextRerender ==
  \/ Next
  \/ Rerender

\* renders repeated without end, each with its own variant prop
SpecRerender == Init /\ [][NextRerender]_vars

\* ------------------------------------------------------- derived notions
\* the identifier resolves to a declaration whose display is the literal "none"
IsHidden(id) == Prop(get(theme, id, EmptyDeclaration), "display") = "none"

\* the reduce has run to its end in this render
FoldDone == pc \in {"return", "done"} /\ ~omitAuthor

FoldRunning == pc \in {"reduce", "return", "done"} /\ ~omitAuthor

LastId == responsiveVariant[Len(responsiveVariant)]

TypeOK ==
  /\ variant \in VariantProps
  /\ omitAuthor \in BOOLEAN
  /\ author \in Authors
  /\ theme \in Themes
  /\ pc \in {"start", "reduce", "return", "done"}
  /\ idx \in 0..Len(responsiveVariant)
  /\ mobileVisibility \in BOOLEAN
  /\ visibility \in BOOLEAN
  /\ avatarOut \in {"pending", "null", "AvatarSimple", "error"}
  /\ namePc \in {"start", "done"}
  /\ nameOut \in {"pending", "null", "Text", "error"}
  /\ earlier.known \in BOOLEAN

\* identifiers of the authorPhoto section, and the sequences built from them
Identifiers == {<<AuthorPhotoSection, n>> : n \in VariantNames}

IdentifierSeqs == SeqsUpTo(Identifiers, MaxLen)

\* all reorderings of a sequence
Permutations(s) ==
  LET n == Len(s)
      bij == {f \in [1..n -> 1..n] : \A a, b \in 1..n : f[a] = f[b] => a = b}
  IN  {[i \in 1..n |-> s[f[i]]] : f \in bij}

\* the identifier is not a key of the theme style table
IsUnknown(id) == ~walk(theme, id, 1).found

\* no declaration of the theme has display "none"
NoHiddenEntry ==
  \A s \in DOMAIN theme : \A n \in DOMAIN theme[s] :
    Prop(theme[s][n], "display") # "none"

HasField(a, k) == a # Null /\ Truthy(Prop(a, k))

\* ------------------------------------------------------------------ C1
\* C1: once an identifier that does not resolve to display "none" has been
\* folded, the accumulator is true after that step and after every later
\* step, and the final visibility is true.
C1_NonHiddenLatchesVisible ==
  /\ FoldRunning =>
       ((\E j \in 1..idx : ~IsHidden(responsiveVariant[j])) => mobileVisibility)
  /\ FoldDone =>
       ((\E j \in 1..Len(responsiveVariant) : ~IsHidden(responsiveVariant[j]))
          => visibility)

\* a non-hidden identifier first, a hidden one last, and the result is visible
C1_Witness ==
  /\ FoldDone
  /\ Len(responsiveVariant) >= 2
  /\ ~IsHidden(responsiveVariant[1])
  /\ IsHidden(LastId)
  /\ visibility

\* ------------------------------------------------------------------ C2
\* C2: for a non-empty identifier sequence the fold returns false exactly
\* when every identifier resolves to display "none".
C2_HiddenIffAllHidden ==
  (FoldDone /\ Len(responsiveVariant) >= 1) =>
    (visibility = FALSE
       <=> \A j \in 1..Len(responsiveVariant) : IsHidden(responsiveVariant[j]))

C2_Witness ==
  /\ FoldDone
  /\ Len(responsiveVariant) >= 2
  /\ \A j \in 1..Len(responsiveVariant) : IsHidden(responsiveVariant[j])
  /\ visibility = FALSE

C4_Original ==
  (FoldDone /\ Len(responsiveVariant) >= 1) =>
    \A s \in IdentifierSeqs :
      (Len(s) >= 1 /\ s[Len(s)] = LastId) => reduce(s, FALSE, theme) = visibility

\* C4 amended: any non-empty sequence ending in the same identifier yields
\* the same visibility when that identifier does not resolve to display
\* "none".
C4_SameVisibleLastSameResult ==
  (FoldDone /\ Len(responsiveVariant) >= 1 /\ ~IsHidden(LastId)) =>
    \A s \in IdentifierSeqs :
      (Len(s) >= 1 /\ s[Len(s)] = LastId) => reduce(s, FALSE, theme) = visibility

\* a hidden identifier first, a different non-hidden one last
C4_Witness ==
  /\ FoldDone
  /\ Len(responsiveVariant) >= 2
  /\ IsHidden(responsiveVariant[1])
  /\ ~IsHidden(LastId)
  /\ visibility

C6_AvatarIff ==
  /\ pc = "done" =>
       (avatarOut = "AvatarSimple"
          <=> (~omitAuthor /\ visibility /\ HasField(author, "thumbnail")))
  /\ ~HasField(author, "thumbnail") => avatarOut # "AvatarSimple"

\* visible, author present, no thumbnail: nothing rendered
C6_Witness ==
  /\ pc = "done"
  /\ ~omitAuthor
  /\ visibility
  /\ author # Null
  /\ ~HasField(author, "thumbnail")
  /\ avatarOut = "null"

\* ------------------------------------------------------------------ C7
\* C7: the name component returns the name fragment exactly when omitAuthor
\* is falsy and the author has both a name and a slug.
C7_NameIff ==
  namePc = "done" =>
    (nameOut = "Text"
       <=> (~omitAuthor /\ HasField(author, "name") /\ HasField(author, "slug")))

\* ------------------------------------------------------------------ C8
\* C8: with omitAuthor set neither component returns a fragment.
C8_OmitSuppressesBoth ==
  omitAuthor =>
    /\ avatarOut # "AvatarSimple"
    /\ nameOut # "Text"
    /\ pc = "done" => avatarOut = "null"
    /\ namePc = "done" => nameOut = "null"

\* a complete author record, both components rendered, omitAuthor set
C8_Witness ==
  /\ omitAuthor
  /\ pc = "done"
  /\ namePc = "done"
  /\ DOMAIN author = {"name", "slug", "thumbnail"}
  /\ avatarOut = "null"
  /\ nameOut = "null"

\* ------------------------------------------------------------------ C9
\* C9: every permutation of the folded identifier sequence yields the same
\* visibility as the sequence itself.
C9_OrderIndependent ==
  FoldDone =>
    \A p \in Permutations(responsiveVariant) : reduce(p, FALSE, theme) = visibility

\* a sequence mixing a hidden and a non-hidden identifier
C9_Witness ==
  /\ FoldDone
  /\ Len(responsiveVariant) >= 2
  /\ \E i, j \in 1..Len(responsiveVariant) :
       i < j /\ IsHidden(responsiveVariant[j]) /\ ~IsHidden(responsiveVariant[i])
  /\ \E p \in Permutations(responsiveVariant) : p # responsiveVariant

\* ----------------------------------------------------------------- C10
\* C10: no render ends in an error; a null author makes both components
\* return nothing; an identifier missing from the theme is looked up as the
\* empty declaration and makes the accumulator true in its step.
C10_NoErrorDefaults ==
  /\ avatarOut # "error"
  /\ nameOut # "error"
  /\ (author = Null /\ pc = "done") => avatarOut = "null"
  /\ (author = Null /\ namePc = "done") => nameOut = "null"
  /\ FoldRunning =>
       \A j \in 1..idx :
         IsUnknown(responsiveVariant[j]) =>
           /\ get(theme, responsiveVariant[j], EmptyDeclaration) = EmptyDeclaration
           /\ mobileVisibility

\* null author, an unknown identifier folded, both components finished
C10_Witness ==
  /\ author = Null
  /\ ~omitAuthor
  /\ pc = "done"
  /\ namePc = "done"
  /\ \E j \in 1..Len(responsiveVariant) : IsUnknown(responsiveVariant[j])
  /\ visibility
  /\ avatarOut = "null"
  /\ nameOut = "null"

\* ----------------------------------------------------------------- C12
\* C12: an empty responsive variant sequence leaves the reduce at its seed
\* false, so the avatar component treats the element as hidden and returns
\* nothing, even with omitAuthor falsy, a thumbnail and no display "none"
\* declaration in the theme.
C12_EmptySequenceHidden ==
  (FoldDone /\ Len(responsiveVariant) = 0) =>
    /\ visibility = FALSE
    /\ pc = "done" => avatarOut = "null"

\* empty variant array, author with thumbnail, theme without display "none"
C12_Witness ==
  /\ pc = "done"
  /\ ~omitAuthor
  /\ Len(responsiveVariant) = 0
  /\ HasField(author, "thumbnail")
  /\ NoHiddenEntry
  /\ visibility = FALSE
  /\ avatarOut = "null"

\* ----------------------------------------------------------------- C11
\* C11: an evaluation of the fold with the same identifier sequence and the
\* same theme style table as an evaluation of an earlier render yields the
\* same boolean, whatever was rendered in between.
C11_SameInputsSameVisibility ==
  (FoldDone /\ earlier.known
     /\ earlier.ids = responsiveVariant /\ earlier.theme = theme)
    => earlier.result = visibility

\* an earlier all-hidden evaluation of two identifiers, evaluated again
C11_Witness ==
  /\ FoldDone
  /\ earlier.known
  /\ earlier.ids = responsiveVariant
  /\ earlier.theme = theme
  /\ Len(responsiveVariant) >= 2
  /\ earlier.result = FALSE
  /\ visibility = FALSE

====
